---- MODULE Spec2Model ----
(***************************************************************************)
(* Model of the users blueprint (src/app/users/routes.py): signup, login,  *)
(* the resend routes and the routes behind token_required, together with   *)
(* the state of the collaborators the handlers call: the identity          *)
(* provider (supabase.auth) and the tables `users`, `userprogress` and     *)
(* `ai_interactions`.                                                      *)
(*                                                                         *)
(* A request is handled in one step (Flask handles a request in one        *)
(* thread and the handlers share no in-process state), except mark-        *)
(* article-read, whose select and insert are steps of their own so that    *)
(* two requests can interleave at the data provider.  Every external       *)
(* call of a handler has an outcome chosen by the environment: it answers  *)
(* or it raises.  The calls a handler made, with their arguments and       *)
(* return values, are kept in last.calls; the JSON body and the HTTP       *)
(* status it returned are kept in last.resp.                               *)
(*                                                                         *)
(* The Streamlit frontend (src/frontend/main.py, src/main_d.py) is the     *)
(* last part of the module: one run of the script is one step, over the    *)
(* session state and the requests the run sends.                           *)
(***************************************************************************)
EXTENDS Integers, Sequences, FiniteSets, Bags, TLC

(***************************************************************************)
(* Bounds of the model.                                                    *)
(***************************************************************************)
MaxAccounts == 2    \* identity-provider accounts that may be created
MaxTokens == 2      \* sessions the identity provider may issue
MaxProgress == 3    \* rows the userprogress table may hold
MaxInteractions == 1    \* rows the ai_interactions table may hold
MaxInFlight == 2    \* mark-article-read requests handled concurrently
MaxPieces == 4      \* pieces a chat completion is made of

(***************************************************************************)
(* Python values.  A JSON field read with data.get(k) is None when the key *)
(* is missing, else its value: None is <<>> and a value v is <<v>>.        *)
(* E-mail addresses are sequences of characters (the pattern of            *)
(* is_valid_email looks at each of them), other strings are strings.       *)
(***************************************************************************)
None == <<>>
Some(v) == <<v>>

\* Python truthiness of a str-or-None value: `not x`.
Falsy(x) == IF x = None THEN TRUE ELSE Len(x[1]) = 0

\* config.ADMIN_SECRET, the server-held admin code.
ADMIN_SECRET == "s3cret"

\* A JSON key that the response body does not carry.
Absent == "<absent>"
\* No access token (the provider's tokens are 1, 2, ...).
NoToken == 0
\* No user id (the provider's ids are 1, 2, ...).
NoId == 0

(***************************************************************************)
(* is_valid_email: re.match of                                             *)
(*   ^[a-zA-Z0-9._%+-]+@[a-zA-Z0-9.-]+\.[a-zA-Z]{2,}$                      *)
(* over the characters the model's addresses are made of.  `$` matches at  *)
(* the end of the string and also just before a trailing newline.          *)
(***************************************************************************)
Letters == {"a", "b", "c", "o", "m", "X"}
Digits == {"1"}
LocalChars == Letters \cup Digits \cup {".", "_", "%", "+", "-"}
DomainChars == Letters \cup Digits \cup {".", "-"}

is_valid_email(email) ==
    LET n == Len(email)
        ends == {n} \cup (IF n > 0 /\ email[n] = "\n" THEN {n - 1} ELSE {})
    IN  \E e \in ends, i \in 1..n, j \in 1..n :
            /\ 1 < i /\ i + 1 < j /\ j + 2 <= e
            /\ \A k \in 1..(i - 1) : email[k] \in LocalChars
            /\ email[i] = "@"
            /\ \A k \in (i + 1)..(j - 1) : email[k] \in DomainChars
            /\ email[j] = "."
            /\ \A k \in (j + 1)..e : email[k] \in Letters

(***************************************************************************)
(* Inputs.                                                                 *)
(***************************************************************************)
Alice == <<"a", "@", "b", ".", "c", "o">>
Bob == <<"b", "1", "@", "m", ".", "c", "o", "m">>
NoAt == <<"a", "b", ".", "c", "o">>
ShortTld == <<"a", "@", "b", ".", "c">>
NoLocal == <<"@", "b", ".", "c", "o">>
Spaced == <<"a", " ", "@", "b", ".", "c", "o">>
DigitTld == <<"a", "@", "b", ".", "c", "1">>
DotDomain == <<"a", "+", "X", "@", "b", "-", ".", "m", ".", "c", "o">>
Newline == <<"a", "@", "b", ".", "c", "o", "\n">>

\* Addresses the pattern accepts and addresses it rejects.
GoodEmails == {Alice, Bob}
OddEmails == {DotDomain, Newline}
BadEmails == {NoAt, ShortTld, NoLocal, Spaced, DigitTld}

Pw5 == "12345"
Pw6 == "123456"
Pw7 == "abcdefg"

Roles == {"user", "admin"}

\* Messages of the exceptions the collaborators raise (str(e)).
ErrMsgs == {"connection reset"}
\* Message of the error value of a rejected sign-in (response.error.message).
AuthErrMsgs == {"Invalid login credentials"}

Request(email, password, username, phone, admin_code) ==
    [email |-> email, password |-> password, username |-> username,
     phone |-> phone, admin_code |-> admin_code]

\* Signup requests of the state machine.
SignupRequests ==
    { Request(Some(e), Some(Pw6), Some("ann"), Some("555"), a) :
        e \in GoodEmails, a \in {None, Some(ADMIN_SECRET)} }
    \cup {Request(Some(Alice), Some(Pw5), Some("ann"), Some("555"), None)}

\* Signup requests with every combination of missing, empty, malformed and
\* well-formed fields and admin codes.
AdminCodes == {None, Some(""), Some(ADMIN_SECRET), Some("S3CRET"), Some("s3cre"), Some("s3cret ")}

AllSignupRequests ==
    { Request(e, p, u, ph, a) :
        e \in {None, Some(<<>>)} \cup {Some(x) : x \in {Alice} \cup OddEmails \cup BadEmails},
        p \in {None, Some(""), Some("1"), Some(Pw5), Some(Pw6), Some(Pw7)},
        u \in {None, Some(""), Some("ann")},
        ph \in {None, Some(""), Some("555")},
        a \in AdminCodes }

(***************************************************************************)
(* Responses: jsonify(body), status.  Keys the body lacks are Absent.      *)
(***************************************************************************)
Resp(code, error, message, status, role, token) ==
    [code |-> code, error |-> error, message |-> message, status |-> status,
     role |-> role, token |-> token]

ErrorResp(code, error) == Resp(code, error, Absent, Absent, Absent, NoToken)
MessageResp(message) == Resp(200, Absent, message, Absent, Absent, NoToken)

MsgRequired == "Email, password, username, and phone are required"
MsgInvalidEmail == "Invalid email format"
MsgShortPassword == "Password must be at least 6 characters long"
MsgResent == "User exists but email not verified. Verification email resent."
MsgAlreadyVerified == "User already registered and verified"
MsgSignupFailed == "Signup failed. Check email format or try again."
MsgRegistered == "User registered successfully. Check your email to verify your account."
MsgNotConfirmed == "Email not confirmed. Please check your email and verify your account."
MsgLoginOk == "Login successful"
MsgConfirmationSent == "Confirmation email sent successfully."
MsgEmailRequired == "Email is required"
MsgVerificationResent == "Verification email resent successfully. Please check your inbox."

(***************************************************************************)
(* One external call of a handler: the function, its arguments (email,     *)
(* role metadata), how it ended (out) and what it returned (uid,           *)
(* confirmed, token) or raised (msg).  type is the "type" key of the       *)
(* argument of resend, Absent when the call passes none; arg is the id     *)
(* or the text a table call or the chat completion is given.               *)
(***************************************************************************)
Call(fn, email, role, out, uid, confirmed, token, msg) ==
    [fn |-> fn, email |-> email, role |-> role, out |-> out, uid |-> uid,
     confirmed |-> confirmed, token |-> token, msg |-> msg, type |-> Absent,
     arg |-> Absent]

VARIABLES
    accounts,   \* identity provider: email -> [id, verified, role, password]
    mailbox,    \* e-mails with a verification link sent and not yet used
    sessions,   \* identity provider: access token -> user id
    users,      \* the `users` table: id -> profile row
    last,       \* the request handled last: [op, req, calls, resp]
    revoked,    \* identity provider: access tokens it no longer accepts
    userprogress,     \* the `userprogress` table: row -> number of copies
    ai_interactions,  \* the `ai_interactions` table: its rows, in order
    pending,    \* mark-article-read requests between their selects and
                \* their insert: request -> number of copies
    script,         \* the frontend script the browser session runs
    session_state,  \* st.session_state of that session: key -> value
    rendered        \* the last run of the script: [page, sent, rerun]

\* The state the handlers of signup, login and resend do not touch.
route_vars == <<revoked, userprogress, ai_interactions, pending>>

\* The state of the frontend, which no handler of the backend touches.
frontend_vars == <<script, session_state, rendered>>

vars == <<accounts, mailbox, sessions, users, last, revoked, userprogress,
          ai_interactions, pending, script, session_state, rendered>>


EmptyFn == [x \in {} |-> x]

\* No session revoked, no progress, no interaction, no request in flight.
InitRouteVars ==
    /\ revoked = {}
    /\ userprogress = EmptyFn
    /\ ai_interactions = <<>>
    /\ pending = EmptyFn

\* No browser session yet: nothing stored, no run of the script.
NoRun == [page |-> "none", sent |-> <<>>, rerun |-> FALSE]

InitFrontendVars ==
    /\ script = "frontend/main.py"
    /\ session_state = EmptyFn
    /\ rendered = NoRun

NoRequest == Request(None, None, None, None, None)
NoResp == Resp(0, Absent, Absent, Absent, Absent, NoToken)

Init ==
    /\ accounts = EmptyFn
    /\ mailbox = {}
    /\ sessions = EmptyFn
    /\ users = EmptyFn
    /\ last = [op |-> "none", req |-> NoRequest, calls |-> <<>>, resp |-> NoResp]
    /\ InitRouteVars
    /\ InitFrontendVars

Handled(op, req, calls, resp) ==
    last' = [op |-> op, req |-> req, calls |-> calls, resp |-> resp]

(***************************************************************************)
(* The identity provider (supabase.auth) and the table store, as the       *)
(* handlers use them.  E-mail is unique among the accounts, ids and tokens *)
(* are issued fresh, a new account is unverified, and resend / sign_up     *)
(* send a verification link to an account that is not verified yet.        *)
(***************************************************************************)
\* Outcomes of the calls: the call answers ("ok"), answers without a user
\* ("none"), answers with an error value ("error") or raises ("raise").
Registered(email) == email \in DOMAIN accounts

CredentialsValid(email, password) ==
    Registered(email) /\ accounts[email].password = password

NextId == Cardinality(DOMAIN accounts) + 1
NextToken == Cardinality(DOMAIN sessions) + 1

\* supabase.auth.resend: a link goes out to a registered, unverified address.
Resent(email) ==
    IF Registered(email) /\ ~accounts[email].verified
    THEN mailbox \cup {email} ELSE mailbox

CallLookup(email, out, msg) ==
    IF out = "raise"
    THEN Call("get_user_by_email", email, Absent, "raise", NoId, FALSE, NoToken, msg)
    ELSE IF Registered(email)
    THEN Call("get_user_by_email", email, Absent, "ok", accounts[email].id,
              accounts[email].verified, NoToken, Absent)
    ELSE Call("get_user_by_email", email, Absent, "none", NoId, FALSE, NoToken, Absent)

CallResend(type, email, out, msg) ==
    [Call("resend", email, Absent, out, NoId, FALSE, NoToken, msg) EXCEPT !.type = type]

CallSignUp(email, role, out, uid, msg) ==
    Call("sign_up", email, role, out, uid, FALSE, NoToken, msg)

CallInsertUser(email, role, out, uid, msg) ==
    Call("users.insert", email, role, out, uid, FALSE, NoToken, msg)

CallSignIn(email, out, uid, confirmed, token, msg) ==
    Call("sign_in_with_password", email, Absent, out, uid, confirmed, token, msg)

(***************************************************************************)
(* POST /signup                                                            *)
(***************************************************************************)
\* The validation of signup: the message of the first check that fails, or
\* Absent when the request passes.
signup_validation_lax(req) ==
    IF Falsy(req.email) \/ Falsy(req.password) \/ Falsy(req.username) \/ Falsy(req.phone)
    THEN MsgRequired
    ELSE IF ~is_valid_email(req.email[1])
    THEN MsgInvalidEmail
    ELSE IF Len(req.password[1]) < 5
    THEN MsgShortPassword
    ELSE Absent

signup_validation_reordered(req) ==
    IF Falsy(req.email) \/ Falsy(req.password) \/ Falsy(req.username) \/ Falsy(req.phone)
    THEN MsgRequired
    ELSE IF Len(req.password[1]) < 6
    THEN MsgShortPassword
    ELSE IF ~is_valid_email(req.email[1])
    THEN MsgInvalidEmail
    ELSE Absent

signup_validation(req) ==
    IF Falsy(req.email) \/ Falsy(req.password) \/ Falsy(req.username) \/ Falsy(req.phone)
    THEN MsgRequired
    ELSE IF ~is_valid_email(req.email[1])
    THEN MsgInvalidEmail
    ELSE IF Len(req.password[1]) < 6
    THEN MsgShortPassword
    ELSE Absent

\* The role derived from the admin code.
signup_role_any_code(admin_code) ==
    IF ~Falsy(admin_code) THEN "admin" ELSE "user"

signup_role(admin_code) ==
    IF ~Falsy(admin_code) /\ admin_code[1] = ADMIN_SECRET THEN "admin" ELSE "user"

signup_invalid_after_lookup(req) ==
    /\ signup_validation(req) # Absent
    /\ Handled("signup", req,
               <<CallLookup(IF req.email = None THEN <<>> ELSE req.email[1], "raise",
                            "connection reset")>>,
               ErrorResp(400, signup_validation(req)))
    /\ UNCHANGED <<accounts, mailbox, sessions, users>>

\* Validation fails: 400, nothing is called.
signup_invalid(req) ==
    /\ signup_validation(req) # Absent
    /\ Handled("signup", req, <<>>, ErrorResp(400, signup_validation(req)))
    /\ UNCHANGED <<accounts, mailbox, sessions, users>>

\* The user exists and is not verified: the verification is resent.
signup_resent(req) ==
    LET email == req.email[1] IN
    /\ signup_validation(req) = Absent
    /\ Registered(email) /\ ~accounts[email].verified
    /\ mailbox' = Resent(email)
    /\ Handled("signup", req,
               <<CallLookup(email, "ok", Absent), CallResend("signup", email, "ok", Absent)>>,
               Resp(200, Absent, MsgResent, "resent", Absent, NoToken))
    /\ UNCHANGED <<accounts, sessions, users>>

\* The user exists and is verified.
signup_verified_upsert(req) ==
    LET email == req.email[1]
        uid == accounts[email].id IN
    /\ signup_validation(req) = Absent
    /\ Registered(email) /\ accounts[email].verified
    /\ users' = IF uid \in DOMAIN users
                THEN [users EXCEPT ![uid].role = signup_role(req.admin_code)]
                ELSE users
    /\ Handled("signup", req, <<CallLookup(email, "ok", Absent)>>,
               ErrorResp(400, MsgAlreadyVerified))
    /\ UNCHANGED <<accounts, mailbox, sessions>>

signup_verified_resends(req) ==
    LET email == req.email[1] IN
    /\ signup_validation(req) = Absent
    /\ Registered(email) /\ accounts[email].verified
    /\ Handled("signup", req,
               <<CallLookup(email, "ok", Absent), CallResend("signup", email, "ok", Absent)>>,
               Resp(200, Absent, MsgResent, "resent", Absent, NoToken))
    /\ UNCHANGED <<accounts, mailbox, sessions, users>>

signup_verified(req) ==
    LET email == req.email[1] IN
    /\ signup_validation(req) = Absent
    /\ Registered(email) /\ accounts[email].verified
    /\ Handled("signup", req, <<CallLookup(email, "ok", Absent)>>,
               ErrorResp(400, MsgAlreadyVerified))
    /\ UNCHANGED <<accounts, mailbox, sessions, users>>

\* The calls of the existing-user check after which the handler goes on to
\* sign_up: the lookup found nobody, or the lookup or the resend raised and
\* the inner `except Exception` swallowed it.
signup_check_passed_any(req) ==
    LET email == req.email[1] IN
    {<<CallLookup(email, "raise", m)>> : m \in ErrMsgs}
    \cup {<<CallLookup(email, "ok", Absent)>>}

signup_check_passed(req) ==
    LET email == req.email[1] IN
    {<<CallLookup(email, "raise", m)>> : m \in ErrMsgs}
    \cup (IF ~Registered(email) THEN {<<CallLookup(email, "ok", Absent)>>} ELSE {})
    \cup (IF Registered(email) /\ ~accounts[email].verified
          THEN {<<CallLookup(email, "ok", Absent), CallResend("signup", email, "raise", m)>> : m \in ErrMsgs}
          ELSE {})

\* sign_up raises: 500 with the message.
signup_sign_up_raises(req) ==
    LET email == req.email[1]
        role == signup_role(req.admin_code) IN
    /\ signup_validation(req) = Absent
    /\ \E check \in signup_check_passed(req), m \in ErrMsgs :
          Handled("signup", req, Append(check, CallSignUp(email, role, "raise", NoId, m)),
                  ErrorResp(500, m))
    /\ UNCHANGED <<accounts, mailbox, sessions, users>>

\* sign_up answers without a user: 400.
signup_no_user(req) ==
    LET email == req.email[1]
        role == signup_role(req.admin_code) IN
    /\ signup_validation(req) = Absent
    /\ \E check \in signup_check_passed(req) :
          Handled("signup", req, Append(check, CallSignUp(email, role, "none", NoId, Absent)),
                  ErrorResp(400, MsgSignupFailed))
    /\ UNCHANGED <<accounts, mailbox, sessions, users>>

\* sign_up creates the account; the insert of the profile row raises or not.
signup_created_rollback(req) ==
    LET email == req.email[1]
        role == signup_role(req.admin_code)
        uid == NextId
        row == [email |-> email, username |-> req.username[1],
                phone |-> req.phone[1], role |-> role]
        account == [id |-> uid, verified |-> FALSE, role |-> role,
                    password |-> req.password[1]] IN
    /\ signup_validation(req) = Absent
    /\ ~Registered(email)
    /\ Cardinality(DOMAIN accounts) < MaxAccounts
    /\ \E check \in signup_check_passed(req) :
          \/ /\ accounts' = accounts @@ (email :> account)
             /\ mailbox' = mailbox \cup {email}
             /\ users' = users @@ (uid :> row)
             /\ Handled("signup", req,
                        check \o <<CallSignUp(email, role, "ok", uid, Absent),
                                   CallInsertUser(email, role, "ok", uid, Absent)>>,
                        Resp(200, Absent, MsgRegistered, Absent, role, NoToken))
          \/ /\ UNCHANGED <<accounts, mailbox, users>>
             /\ \E m \in ErrMsgs :
                   Handled("signup", req,
                           check \o <<CallSignUp(email, role, "ok", uid, Absent),
                                      CallInsertUser(email, role, "raise", uid, m)>>,
                           ErrorResp(500, m))
    /\ UNCHANGED sessions

signup_created_default_role(req) ==
    LET email == req.email[1]
        role == signup_role(req.admin_code)
        uid == NextId
        row == [email |-> email, username |-> req.username[1],
                phone |-> req.phone[1], role |-> "user"] IN
    /\ signup_validation(req) = Absent
    /\ ~Registered(email)
    /\ Cardinality(DOMAIN accounts) < MaxAccounts
    /\ accounts' = accounts @@ (email :> [id |-> uid, verified |-> FALSE, role |-> role,
                                          password |-> req.password[1]])
    /\ mailbox' = mailbox \cup {email}
    /\ \E check \in signup_check_passed(req) :
          \/ /\ users' = users @@ (uid :> row)
             /\ Handled("signup", req,
                        check \o <<CallSignUp(email, role, "ok", uid, Absent),
                                   CallInsertUser(email, role, "ok", uid, Absent)>>,
                        Resp(200, Absent, MsgRegistered, Absent, role, NoToken))
          \/ /\ users' = users
             /\ \E m \in ErrMsgs :
                   Handled("signup", req,
                           check \o <<CallSignUp(email, role, "ok", uid, Absent),
                                      CallInsertUser(email, role, "raise", uid, m)>>,
                           ErrorResp(500, m))
    /\ UNCHANGED sessions

signup_created(req) ==
    LET email == req.email[1]
        role == signup_role(req.admin_code)
        uid == NextId
        row == [email |-> email, username |-> req.username[1],
                phone |-> req.phone[1], role |-> role] IN
    /\ signup_validation(req) = Absent
    /\ ~Registered(email)
    /\ Cardinality(DOMAIN accounts) < MaxAccounts
    /\ accounts' = accounts @@ (email :> [id |-> uid, verified |-> FALSE, role |-> role,
                                          password |-> req.password[1]])
    /\ mailbox' = mailbox \cup {email}
    /\ \E check \in signup_check_passed(req) :
          \/ /\ users' = users @@ (uid :> row)
             /\ Handled("signup", req,
                        check \o <<CallSignUp(email, role, "ok", uid, Absent),
                                   CallInsertUser(email, role, "ok", uid, Absent)>>,
                        Resp(200, Absent, MsgRegistered, Absent, role, NoToken))
          \/ /\ users' = users
             /\ \E m \in ErrMsgs :
                   Handled("signup", req,
                           check \o <<CallSignUp(email, role, "ok", uid, Absent),
                                      CallInsertUser(email, role, "raise", uid, m)>>,
                           ErrorResp(500, m))
    /\ UNCHANGED sessions

signup(req) ==
    \/ signup_invalid(req)
    \/ signup_resent(req)
    \/ signup_verified(req)
    \/ signup_sign_up_raises(req)
    \/ signup_no_user(req)
    \/ signup_created(req)

(***************************************************************************)
(* POST /login                                                             *)
(***************************************************************************)
LoginRequests ==
    { Request(Some(e), Some(p), None, None, None) : e \in GoodEmails, p \in {Pw6, Pw7} }

\* sign_in_with_password raises: 500 with the message.
login_raises(req) ==
    /\ \E m \in ErrMsgs \cup AuthErrMsgs :
          Handled("login", req,
                  <<CallSignIn(req.email[1], "raise", NoId, FALSE, NoToken, m)>>,
                  ErrorResp(500, m))
    /\ UNCHANGED <<accounts, mailbox, sessions, users>>

\* sign_in_with_password answers with an error value: 400 with its message.
login_error(req) ==
    /\ \E m \in AuthErrMsgs :
          Handled("login", req,
                  <<CallSignIn(req.email[1], "error", NoId, FALSE, NoToken, m)>>,
                  ErrorResp(400, m))
    /\ UNCHANGED <<accounts, mailbox, sessions, users>>

\* sign_in_with_password answers without an error and without a user: 403.
login_no_user(req) ==
    /\ Handled("login", req,
               <<CallSignIn(req.email[1], "none", NoId, FALSE, NoToken, Absent)>>,
               ErrorResp(403, MsgNotConfirmed))
    /\ UNCHANGED <<accounts, mailbox, sessions, users>>

\* What login answers when the provider accepted the credentials and
\* returned the user and a session with the access token `token`.
login_response_unchecked(confirmed, token) ==
    Resp(200, Absent, MsgLoginOk, Absent, Absent, token)

login_response_401(confirmed, token) ==
    IF ~confirmed
    THEN ErrorResp(401, MsgNotConfirmed)
    ELSE Resp(200, Absent, MsgLoginOk, Absent, Absent, token)

login_response_first_token(confirmed, token) ==
    IF ~confirmed
    THEN ErrorResp(403, MsgNotConfirmed)
    ELSE Resp(200, Absent, MsgLoginOk, Absent, Absent, 1)

login_response(confirmed, token) ==
    IF ~confirmed
    THEN ErrorResp(403, MsgNotConfirmed)
    ELSE Resp(200, Absent, MsgLoginOk, Absent, Absent, token)

\* The provider accepts the credentials and opens a session.
login_session(req) ==
    LET email == req.email[1]
        token == NextToken IN
    /\ CredentialsValid(email, req.password[1])
    /\ Cardinality(DOMAIN sessions) < MaxTokens
    /\ sessions' = sessions @@ (token :> accounts[email].id)
    /\ Handled("login", req,
               <<CallSignIn(email, "ok", accounts[email].id, accounts[email].verified,
                            token, Absent)>>,
               login_response(accounts[email].verified, token))
    /\ UNCHANGED <<accounts, mailbox, users>>

login(req) ==
    \/ login_raises(req)
    \/ login_error(req)
    \/ login_no_user(req)
    \/ login_session(req)

(***************************************************************************)
(* POST /resend-confirmation and POST /resend-verification                 *)
(***************************************************************************)
ResendRequests ==
    { Request(e, None, None, None, None) : e \in {None, Some(<<>>)} \cup {Some(x) : x \in GoodEmails} }

\* resend({"email": email}), without a type.
resend_confirmation(req) ==
    \/ /\ \E m \in ErrMsgs :
             Handled("resend_confirmation", req,
                     <<CallResend(Absent, req.email, "raise", m)>>, ErrorResp(500, m))
       /\ UNCHANGED <<accounts, mailbox, sessions, users>>
    \/ /\ \E m \in ErrMsgs :
             Handled("resend_confirmation", req,
                     <<CallResend(Absent, req.email, "error", m)>>, ErrorResp(400, m))
       /\ UNCHANGED <<accounts, mailbox, sessions, users>>
    \/ /\ ~Falsy(req.email)
       /\ mailbox' = Resent(req.email[1])
       /\ Handled("resend_confirmation", req,
                  <<CallResend(Absent, req.email, "ok", Absent)>>, MessageResp(MsgConfirmationSent))
       /\ UNCHANGED <<accounts, sessions, users>>

\* resend({"type": "signup", "email": email}).
resend_verification_confirms(req) ==
    \/ /\ Falsy(req.email)
       /\ Handled("resend_verification", req, <<>>, ErrorResp(400, MsgEmailRequired))
       /\ UNCHANGED <<accounts, mailbox, sessions, users>>
    \/ /\ ~Falsy(req.email)
       /\ \E m \in ErrMsgs :
             Handled("resend_verification", req,
                     <<CallResend("signup", req.email, "raise", m)>>, ErrorResp(500, m))
       /\ UNCHANGED <<accounts, mailbox, sessions, users>>
    \/ /\ ~Falsy(req.email)
       /\ mailbox' = mailbox
       /\ accounts' = IF Registered(req.email[1])
                      THEN [accounts EXCEPT ![req.email[1]].verified = TRUE]
                      ELSE accounts
       /\ Handled("resend_verification", req,
                  <<CallResend("signup", req.email, "ok", Absent)>>, MessageResp(MsgVerificationResent))
       /\ UNCHANGED <<sessions, users>>

resend_verification(req) ==
    \/ /\ Falsy(req.email)
       /\ Handled("resend_verification", req, <<>>, ErrorResp(400, MsgEmailRequired))
       /\ UNCHANGED <<accounts, mailbox, sessions, users>>
    \/ /\ ~Falsy(req.email)
       /\ \E m \in ErrMsgs :
             Handled("resend_verification", req,
                     <<CallResend("signup", req.email, "raise", m)>>, ErrorResp(500, m))
       /\ UNCHANGED <<accounts, mailbox, sessions, users>>
    \/ /\ ~Falsy(req.email)
       /\ mailbox' = Resent(req.email[1])
       /\ Handled("resend_verification", req,
                  <<CallResend("signup", req.email, "ok", Absent)>>, MessageResp(MsgVerificationResent))
       /\ UNCHANGED <<accounts, sessions, users>>

(***************************************************************************)
(* The owner of an address follows the verification link (identity         *)
(* provider; no handler of the application takes part).                    *)
(***************************************************************************)
VerifyEmail(email) ==
    /\ email \in mailbox
    /\ Registered(email)
    /\ accounts' = [accounts EXCEPT ![email].verified = TRUE]
    /\ mailbox' = mailbox \ {email}
    /\ UNCHANGED <<sessions, users, last>>

Next ==
    \/ (\E req \in SignupRequests : signup(req)) /\ UNCHANGED <<route_vars, frontend_vars>>
    \/ (\E req \in LoginRequests : login(req)) /\ UNCHANGED <<route_vars, frontend_vars>>
    \/ (\E req \in ResendRequests : resend_confirmation(req)) /\ UNCHANGED <<route_vars, frontend_vars>>
    \/ (\E req \in ResendRequests : resend_verification(req)) /\ UNCHANGED <<route_vars, frontend_vars>>
    \/ (\E email \in GoodEmails : VerifyEmail(email)) /\ UNCHANGED <<route_vars, frontend_vars>>

Spec == Init /\ [][Next]_vars

(***************************************************************************)
(* signup alone, over every combination of fields and over the states of   *)
(* the identity provider it distinguishes: a request arrives, signup       *)
(* handles it.                                                             *)
(***************************************************************************)
Account(id, verified, role) ==
    [id |-> id, verified |-> verified, role |-> role, password |-> Pw7]

InitSignup ==
    /\ \E verified \in BOOLEAN, role \in Roles :
          \/ accounts = EmptyFn /\ mailbox = {} /\ users = EmptyFn
          \/ /\ accounts = (Alice :> Account(1, verified, role))
             /\ mailbox = IF verified THEN {} ELSE {Alice}
             /\ users = (1 :> [email |-> Alice, username |-> "al", phone |-> "555",
                               role |-> role])
    /\ sessions = EmptyFn
    /\ \E req \in AllSignupRequests :
          last = [op |-> "arrived", req |-> req, calls |-> <<>>, resp |-> NoResp]
    /\ InitRouteVars
    /\ InitFrontendVars

NextSignup ==
    /\ last.op = "arrived"
    /\ signup(last.req)
    /\ UNCHANGED <<route_vars, frontend_vars>>

SpecSignup == InitSignup /\ [][NextSignup]_vars

(***************************************************************************)
(* The routes behind token_required.  A request carries the Authorization  *)
(* header and the arguments of its route.                                  *)
(***************************************************************************)
RouteRequest(auth, article_id, question_id, question) ==
    [auth |-> auth, article_id |-> article_id, question_id |-> question_id,
     question |-> question]

\* Authorization headers: none, one of another scheme, and bearer tokens of
\* which 3 was never issued.
Bearer(t) == Some(<<"Bearer", t>>)
Headers == {None, Some(<<"Basic", 1>>), Bearer(1), Bearer(2), Bearer(3)}

\* The articles table (no route of the blueprint writes it) and the
\* category of each article; practice questions exist for category "dp".
Articles == {"a1", "a2"}
Category == [a \in Articles |-> IF a = "a1" THEN "dp" ELSE Absent]
Questions == {"q1"}
ArticleIds == {"a1", "zz"}

\* The text of a chat completion, a sequence of characters: "BQ" is a
\* backquote and "NL" a line break.  The texts are made of up to MaxPieces
\* of the pieces below.
Fence == <<"BQ", "BQ", "BQ">>
PythonTag == <<"p", "y", "t", "h", "o", "n">>
Whitespace == {"NL", " "}
Pieces == {Fence, PythonTag, <<" ">>, <<"NL">>, <<"x">>, <<"BQ">>}

RECURSIVE Flatten(_)
Flatten(pieces) ==
    IF pieces = <<>> THEN <<>> ELSE Head(pieces) \o Flatten(Tail(pieces))

AiResponses ==
    {Flatten(pieces) : pieces \in UNION {[1..n -> Pieces] : n \in 0..MaxPieces}}
\* A request of /ai/assist without a JSON body.
NoJson == <<"no", "json">>

\* Bodies of the routes: status, "error", "message" and the other keys.
NoData == <<>>
RouteResp(code, error, message, data) ==
    [code |-> code, error |-> error, message |-> message, data |-> data]
RouteError(code, error) == RouteResp(code, error, Absent, NoData)
\* An exception that leaves the handler: the 500 page of the framework.
Uncaught == RouteResp(500, Absent, Absent, NoData)

MsgUnauthorized == "Unauthorized"
MsgArticlesFailed == "Failed to fetch articles"
MsgArticleNotFound == "Article not found"
MsgNoCategory == "Article does not have a category"
MsgProgressFailed == "Failed to fetch user progress"
MsgQuestionRequired == "Question is required"
MsgAiFailed == "Failed to get AI response"
MsgAlreadyRead == "Article already marked as read"
MsgMarked == "Article marked as read"
MsgMarkFailed == "Failed to mark article as read"

\* Rows of userprogress: of mark_article_as_read and of mark_question_as_read.
ArticleRow(uid, article_id) ==
    [user_id |-> uid, article_id |-> article_id, question_id |-> Absent,
     completed_at |-> "utcnow"]
QuestionRow(uid, question_id) ==
    [user_id |-> uid, article_id |-> Absent, question_id |-> question_id,
     completed_at |-> Absent]

\* select("*").eq("user_id", uid) and .eq("article_id", article_id).
ProgressOf(uid) == {row \in BagToSet(userprogress) : row.user_id = uid}
CompletedBy(uid) ==
    BagCardinality([row \in ProgressOf(uid) |-> userprogress[row]])
Marked(uid, article_id) == CopiesIn(ArticleRow(uid, article_id), userprogress)

CallAuth(token, out, uid, msg) ==
    Call("auth.get_user", Absent, Absent, out, uid, FALSE, token, msg)
CallTable(fn, arg, out, uid, msg) ==
    [Call(fn, Absent, Absent, out, uid, FALSE, NoToken, msg) EXCEPT !.arg = arg]

(***************************************************************************)
(* token_required (middlewares.auth): the bearer token of the header is    *)
(* resolved by the identity provider on every request; a missing header,   *)
(* a header without a bearer token, a token the provider does not accept   *)
(* and a provider that raises all give 401.                                *)
(***************************************************************************)
bearer_token(auth) ==
    IF auth = None THEN NoToken
    ELSE IF auth[1][1] = "Bearer" THEN auth[1][2] ELSE NoToken

TokenAccepted_once_issued(token) == token \in DOMAIN sessions

TokenAccepted(token) == token \in DOMAIN sessions /\ token \notin revoked

\* The calls and the response of a request token_required turns away.
token_rejections(req) ==
    LET token == bearer_token(req.auth) IN
    IF token = NoToken
    THEN {<<<<>>, RouteError(401, MsgUnauthorized)>>}
    ELSE {<<<<CallAuth(token, "raise", NoId, m)>>, RouteError(401, MsgUnauthorized)>> :
             m \in ErrMsgs}
         \cup (IF TokenAccepted(token) THEN {}
               ELSE {<<<<CallAuth(token, "error", NoId, Absent)>>,
                       RouteError(401, MsgUnauthorized)>>})

token_required(req) ==
    bearer_token(req.auth) # NoToken /\ TokenAccepted(bearer_token(req.auth))

\* The user passed to the handler, and the call that resolved it.
UserId(req) == sessions[bearer_token(req.auth)]
Authenticated(req) == <<CallAuth(bearer_token(req.auth), "ok", UserId(req), Absent)>>

unauthorized(op, req) ==
    /\ \E rej \in token_rejections(req) : Handled(op, req, rej[1], rej[2])
    /\ UNCHANGED <<frontend_vars, accounts, mailbox, sessions, users, route_vars>>

(***************************************************************************)
(* GET /articles.                                                          *)
(***************************************************************************)
ArticlesRequests == {RouteRequest(h, Absent, Absent, None) : h \in Headers}

get_articles_handler(req, calls) ==
    \/ Handled("get_articles", req,
               calls \o <<CallTable("articles.select", Absent, "ok", NoId, Absent)>>,
               RouteResp(200, Absent, Absent, Articles))
    \/ \E m \in ErrMsgs :
          Handled("get_articles", req,
                  calls \o <<CallTable("articles.select", Absent, "raise", NoId, m)>>,
                  RouteError(500, MsgArticlesFailed))

get_articles_undecorated ==
    \E req \in ArticlesRequests :
       /\ get_articles_handler(req, <<>>)
       /\ UNCHANGED <<frontend_vars, accounts, mailbox, sessions, users, route_vars>>

get_articles ==
    \E req \in ArticlesRequests :
       \/ unauthorized("get_articles", req)
       \/ /\ token_required(req)
          /\ get_articles_handler(req, Authenticated(req))
          /\ UNCHANGED <<frontend_vars, accounts, mailbox, sessions, users, route_vars>>

(***************************************************************************)
(* POST /questions/<question_id>/mark-read: no check, no try.              *)
(***************************************************************************)
MarkQuestionRequests ==
    {RouteRequest(h, Absent, q, None) : h \in Headers, q \in Questions}

TableFull == BagCardinality(userprogress) >= MaxProgress

mark_question_as_read ==
    \E req \in MarkQuestionRequests :
       \/ unauthorized("mark_question_as_read", req)
       \/ /\ token_required(req)
          /\ LET row == QuestionRow(UserId(req), req.question_id) IN
             \/ /\ ~TableFull
                /\ userprogress' = userprogress (+) SetToBag({row})
                /\ Handled("mark_question_as_read", req,
                           Authenticated(req) \o
                           <<CallTable("userprogress.insert", req.question_id, "ok",
                                       UserId(req), Absent)>>,
                           RouteResp(200, Absent, Absent, <<row>>))
             \/ /\ \E m \in ErrMsgs :
                      Handled("mark_question_as_read", req,
                              Authenticated(req) \o
                              <<CallTable("userprogress.insert", req.question_id,
                                          "raise", UserId(req), m)>>,
                              Uncaught)
                /\ UNCHANGED userprogress
          /\ UNCHANGED <<frontend_vars, accounts, mailbox, sessions, users, revoked,
                         ai_interactions, pending>>

(***************************************************************************)
(* GET /articles/<article_id>/questions: no try.                           *)
(***************************************************************************)
RelatedRequests ==
    {RouteRequest(h, a, Absent, None) : h \in Headers, a \in Articles \cup {"zz"}}

CallArticle(article_id, out, msg) ==
    CallTable("articles.select", article_id, out, NoId, msg)

get_related_questions ==
    \E req \in RelatedRequests :
       \/ unauthorized("get_related_questions", req)
       \/ /\ token_required(req)
          /\ LET a == req.article_id
                 done(calls, resp) ==
                     Handled("get_related_questions", req, Authenticated(req) \o calls, resp)
             IN
             \/ \E m \in ErrMsgs : done(<<CallArticle(a, "raise", m)>>, Uncaught)
             \/ /\ a \notin Articles
                /\ done(<<CallArticle(a, "none", Absent)>>,
                        RouteError(404, MsgArticleNotFound))
             \/ /\ a \in Articles
                /\ Category[a] = Absent
                /\ done(<<CallArticle(a, "ok", Absent)>>, RouteError(400, MsgNoCategory))
             \/ /\ a \in Articles
                /\ Category[a] # Absent
                /\ \/ done(<<CallArticle(a, "ok", Absent),
                             CallTable("practicequestions.select", Category[a], "ok",
                                       NoId, Absent)>>,
                           RouteResp(200, Absent, Absent,
                                     [article |-> a, related_questions |-> Questions]))
                   \/ \E m \in ErrMsgs :
                         done(<<CallArticle(a, "ok", Absent),
                                CallTable("practicequestions.select", Category[a],
                                          "raise", NoId, m)>>,
                              Uncaught)
          /\ UNCHANGED <<frontend_vars, accounts, mailbox, sessions, users, route_vars>>

(***************************************************************************)
(* GET /user/progress.                                                     *)
(***************************************************************************)
ProgressRequests == ArticlesRequests

\* completed / total * 100, as the fraction <<numerator, denominator>>.
progress_percentage(completed, total) ==
    IF total > 0 THEN <<completed * 100, total>> ELSE <<0, 1>>

get_user_progress ==
    \E req \in ProgressRequests :
       \/ unauthorized("get_user_progress", req)
       \/ /\ token_required(req)
          /\ LET uid == UserId(req)
                 sel_progress(out, m) == CallTable("userprogress.select", Absent, out, uid, m)
                 sel_articles(out, m) == CallTable("articles.select", Absent, out, NoId, m)
                 sel_role(out, m) == CallTable("users.select", Absent, out, uid, m)
                 done(calls, resp) ==
                     Handled("get_user_progress", req, Authenticated(req) \o calls, resp)
                 failed == RouteError(500, MsgProgressFailed)
             IN
             \/ \E m \in ErrMsgs : done(<<sel_progress("raise", m)>>, failed)
             \/ \E m \in ErrMsgs :
                   done(<<sel_progress("ok", Absent), sel_articles("raise", m)>>, failed)
             \/ \E m \in ErrMsgs :
                   done(<<sel_progress("ok", Absent), sel_articles("ok", Absent),
                          sel_role("raise", m)>>, failed)
             \/ done(<<sel_progress("ok", Absent), sel_articles("ok", Absent),
                       sel_role("ok", Absent)>>,
                     RouteResp(200, Absent, Absent,
                         [total_articles |-> Cardinality(Articles),
                          completed_articles |-> CompletedBy(uid),
                          progress_percentage |->
                              progress_percentage(CompletedBy(uid), Cardinality(Articles)),
                          user_role |-> IF uid \in DOMAIN users THEN users[uid].role
                                        ELSE "user",
                          progress_data |->
                              [row \in ProgressOf(uid) |-> userprogress[row]]]))
          /\ UNCHANGED <<frontend_vars, accounts, mailbox, sessions, users, route_vars>>

(***************************************************************************)
(* GET /list-users: not behind token_required.                             *)
(***************************************************************************)
list_users ==
    /\ \/ Handled("list_users", RouteRequest(None, Absent, Absent, None),
                  <<CallTable("users.select", Absent, "ok", NoId, Absent)>>,
                  RouteResp(200, Absent, Absent, users))
       \/ \E m \in ErrMsgs :
             Handled("list_users", RouteRequest(None, Absent, Absent, None),
                     <<CallTable("users.select", Absent, "raise", NoId, m)>>,
                     RouteError(500, m))
    /\ UNCHANGED <<frontend_vars, accounts, mailbox, sessions, users, route_vars>>

(***************************************************************************)
(* extract_code_example: the first fenced block, stripped, without a       *)
(* leading language name.                                                  *)
(***************************************************************************)
RECURSIVE lstrip(_)
lstrip(text) ==
    IF text = <<>> THEN text
    ELSE IF Head(text) \in Whitespace THEN lstrip(Tail(text)) ELSE text

RECURSIVE rstrip(_)
rstrip(text) ==
    IF text = <<>> THEN text
    ELSE IF text[Len(text)] \in Whitespace
         THEN rstrip(SubSeq(text, 1, Len(text) - 1)) ELSE text

strip(text) == rstrip(lstrip(text))

First(S) == CHOOSE i \in S : \A j \in S : i <= j

\* response.find of the fence: its first position, 0 when there is none.
find_fence(text) ==
    LET at == {i \in 1..(Len(text) - 2) : SubSeq(text, i, i + 2) = Fence}
    IN  IF at = {} THEN 0 ELSE First(at)

\* "```" in response
has_fence(text) == find_fence(text) # 0

\* response.split("```")
RECURSIVE split(_)
split(text) ==
    IF find_fence(text) = 0 THEN <<text>>
    ELSE <<SubSeq(text, 1, find_fence(text) - 1)>>
         \o split(SubSeq(text, find_fence(text) + 3, Len(text)))

startswith(text, prefix) ==
    IF Len(text) < Len(prefix) THEN FALSE
    ELSE SubSeq(text, 1, Len(prefix)) = prefix

extract_code_example_keeps_tag(response) ==
    IF ~has_fence(response) THEN None
    ELSE Some(strip(split(response)[2]))

extract_code_example(response) ==
    IF ~has_fence(response) THEN None
    ELSE LET code == strip(split(response)[2])
         IN  Some(IF startswith(code, PythonTag)
                  THEN strip(SubSeq(code, 7, Len(code)))
                  ELSE code)

\* The code_example key of the answer of /ai/assist.
code_example(ai_response) ==
    IF has_fence(ai_response) THEN extract_code_example(ai_response) ELSE None

(***************************************************************************)
(* POST /ai/assist.                                                        *)
(***************************************************************************)
AiRequests ==
    {RouteRequest(h, Absent, Absent, q) :
        h \in Headers, q \in {NoJson, None, Some(""), Some("what is a heap")}}

CallChat(question, out, msg) ==
    CallTable("chat.completions.create", question, out, NoId, msg)

InteractionsFull == Len(ai_interactions) >= MaxInteractions

ai_done(req, calls, resp) ==
    Handled("get_ai_assistance", req, Authenticated(req) \o calls, resp)
ai_failed == RouteError(500, MsgAiFailed)

get_ai_assistance_retrying(req) ==
    \E m \in ErrMsgs, text \in AiResponses :
       /\ ~InteractionsFull
       /\ ai_interactions' = Append(ai_interactions,
              [user_id |-> UserId(req), question |-> req.question[1],
               ai_response |-> text])
       /\ ai_done(req, <<CallChat(req.question[1], "raise", m),
                 CallChat(req.question[1], "ok", Absent),
                 CallTable("ai_interactions.insert", req.question[1], "ok",
                           UserId(req), Absent)>>,
               RouteResp(200, Absent, Absent,
                         [response |-> text, code_example |-> code_example(text)]))

get_ai_assistance_asked(req) ==
    \/ /\ \E m \in ErrMsgs : ai_done(req, <<CallChat(req.question[1], "raise", m)>>, ai_failed)
       /\ UNCHANGED ai_interactions
    \/ /\ \E m \in ErrMsgs :
             ai_done(req, <<CallChat(req.question[1], "ok", Absent),
                    CallTable("ai_interactions.insert", req.question[1], "raise",
                              UserId(req), m)>>,
                  ai_failed)
       /\ UNCHANGED ai_interactions
    \/ \E text \in AiResponses :
          /\ ~InteractionsFull
          /\ ai_interactions' = Append(ai_interactions,
                 [user_id |-> UserId(req), question |-> req.question[1],
                  ai_response |-> text])
          /\ ai_done(req, <<CallChat(req.question[1], "ok", Absent),
                    CallTable("ai_interactions.insert", req.question[1], "ok",
                              UserId(req), Absent)>>,
                  RouteResp(200, Absent, Absent,
                            [response |-> text,
                             code_example |-> code_example(text)]))

get_ai_assistance ==
    \E req \in AiRequests :
       \/ unauthorized("get_ai_assistance", req)
       \/ /\ token_required(req)
          /\ IF req.question = NoJson
             THEN ai_done(req, <<>>, ai_failed) /\ UNCHANGED ai_interactions
             ELSE IF Falsy(req.question)
             THEN /\ ai_done(req, <<>>, RouteError(400, MsgQuestionRequired))
                  /\ UNCHANGED ai_interactions
             ELSE get_ai_assistance_asked(req)
          /\ UNCHANGED <<frontend_vars, accounts, mailbox, sessions, users, revoked, userprogress,
                         pending>>

(***************************************************************************)
(* POST /articles/<article_id>/mark-read.  The selects and the insert are  *)
(* separate calls to the data provider, and the server handles requests    *)
(* concurrently: a request that found no record waits in pending until     *)
(* its insert is made.                                                     *)
(***************************************************************************)
MarkArticleRequests ==
    {RouteRequest(h, a, Absent, None) : h \in Headers, a \in ArticleIds}

CallProgress(fn, req, out, msg) == CallTable(fn, req.article_id, out, UserId(req), msg)

article_found_always(article_id) == TRUE

\* article_response.data of the select by id.
article_found(article_id) == article_id \in Articles

already_marked_unchecked(uid, article_id) == FALSE

\* existing_progress.data of the select by user_id and article_id.
already_marked(uid, article_id) == Marked(uid, article_id) > 0

InFlightFull == BagCardinality(pending) >= MaxInFlight

mark_article_as_read_check ==
    \E req \in MarkArticleRequests :
       \/ unauthorized("mark_article_as_read", req)
       \/ /\ token_required(req)
          /\ LET a == req.article_id
                 done(calls, resp) ==
                     /\ Handled("mark_article_as_read", req, Authenticated(req) \o calls, resp)
                     /\ UNCHANGED pending
                 failed == RouteError(500, MsgMarkFailed)
                 selected == <<CallArticle(a, "ok", Absent),
                               CallProgress("userprogress.select", req, "ok", Absent)>>
             IN
             \/ \E m \in ErrMsgs : done(<<CallArticle(a, "raise", m)>>, failed)
             \/ /\ ~article_found(a)
                /\ done(<<CallArticle(a, "none", Absent)>>,
                        RouteError(404, MsgArticleNotFound))
             \/ /\ article_found(a)
                /\ \E m \in ErrMsgs :
                      done(<<CallArticle(a, "ok", Absent),
                             CallProgress("userprogress.select", req, "raise", m)>>,
                           failed)
             \/ /\ article_found(a)
                /\ already_marked(UserId(req), a)
                /\ done(selected, RouteResp(200, Absent, MsgAlreadyRead, NoData))
             \/ /\ article_found(a)
                /\ ~already_marked(UserId(req), a)
                /\ ~InFlightFull
                /\ pending' = pending (+) SetToBag({[req |-> req, uid |-> UserId(req),
                                                     calls |-> Authenticated(req) \o selected]})
                /\ UNCHANGED last
          /\ UNCHANGED <<frontend_vars, accounts, mailbox, sessions, users, revoked, userprogress,
                         ai_interactions>>

mark_article_as_read_insert ==
    \E p \in BagToSet(pending) :
       /\ pending' = pending (-) SetToBag({p})
       /\ LET row == ArticleRow(p.uid, p.req.article_id) IN
          \/ /\ ~TableFull
             /\ userprogress' = userprogress (+) SetToBag({row})
             /\ Handled("mark_article_as_read", p.req,
                        p.calls \o <<CallTable("userprogress.insert", p.req.article_id,
                                               "ok", p.uid, Absent)>>,
                        RouteResp(200, Absent, MsgMarked, row))
          \/ /\ \E m \in ErrMsgs :
                   Handled("mark_article_as_read", p.req,
                           p.calls \o <<CallTable("userprogress.insert", p.req.article_id,
                                                  "raise", p.uid, m)>>,
                           RouteError(500, MsgMarkFailed))
             /\ UNCHANGED userprogress
       /\ UNCHANGED <<frontend_vars, accounts, mailbox, sessions, users, revoked, ai_interactions>>

(***************************************************************************)
(* The identity provider ends a session (sign-out, expiry): it no longer   *)
(* accepts the token.                                                      *)
(***************************************************************************)
RevokeToken ==
    \E token \in DOMAIN sessions \ revoked :
       /\ revoked' = revoked \cup {token}
       /\ UNCHANGED <<frontend_vars, accounts, mailbox, sessions, users, last, userprogress,
                      ai_interactions, pending>>

(***************************************************************************)
(* The protected routes, from a state signup, verification and login       *)
(* reach: two verified accounts, each with a session; the profile row of   *)
(* the second was never inserted.                                          *)
(***************************************************************************)
InitRoutes ==
    /\ accounts = (Alice :> Account(1, TRUE, "user")) @@ (Bob :> Account(2, TRUE, "admin"))
    /\ mailbox = {}
    /\ sessions = (1 :> 1) @@ (2 :> 2)
    /\ users = (1 :> [email |-> Alice, username |-> "al", phone |-> "555",
                      role |-> "user"])
    /\ last = [op |-> "none", req |-> RouteRequest(None, Absent, Absent, None),
               calls |-> <<>>, resp |-> RouteError(0, Absent)]
    /\ InitRouteVars
    /\ InitFrontendVars

NextRoutes ==
    \/ get_articles
    \/ get_related_questions
    \/ get_user_progress
    \/ list_users
    \/ mark_article_as_read_check
    \/ mark_article_as_read_insert
    \/ RevokeToken

SpecRoutes == InitRoutes /\ [][NextRoutes]_vars

(***************************************************************************)
(* The routes that write and read userprogress, from the same state.       *)
(***************************************************************************)
NextProgress ==
    \/ mark_question_as_read
    \/ mark_article_as_read_check
    \/ mark_article_as_read_insert
    \/ get_user_progress

SpecProgress == InitRoutes /\ [][NextProgress]_vars

(***************************************************************************)
(* One request to any handler, from states the program reaches: nobody     *)
(* registered; one unverified account; two verified accounts with a        *)
(* session each, one of the sessions possibly ended and one article        *)
(* possibly read.                                                          *)
(***************************************************************************)
InitHandlers ==
    /\ \/ /\ accounts = EmptyFn /\ mailbox = {} /\ users = EmptyFn
          /\ sessions = EmptyFn /\ revoked = {} /\ userprogress = EmptyFn
       \/ /\ accounts = (Alice :> Account(1, FALSE, "user"))
          /\ mailbox = {Alice}
          /\ users = (1 :> [email |-> Alice, username |-> "al", phone |-> "555",
                            role |-> "user"])
          /\ sessions = EmptyFn /\ revoked = {} /\ userprogress = EmptyFn
       \/ /\ accounts = (Alice :> Account(1, TRUE, "user")) @@
                        (Bob :> Account(2, TRUE, "admin"))
          /\ mailbox = {}
          /\ users = (1 :> [email |-> Alice, username |-> "al", phone |-> "555",
                            role |-> "user"])
          /\ sessions = (1 :> 1) @@ (2 :> 2)
          /\ revoked \in {{}, {1}}
          /\ userprogress \in {EmptyFn, SetToBag({ArticleRow(1, "a1")})}
    /\ last = [op |-> "none", req |-> NoRequest, calls |-> <<>>, resp |-> NoResp]
    /\ ai_interactions = <<>>
    /\ pending = EmptyFn
    /\ InitFrontendVars

Arrived == last.op = "none" /\ pending = EmptyFn

NextHandlers ==
    \/ Arrived /\ (\E req \in SignupRequests : signup(req)) /\ UNCHANGED <<route_vars, frontend_vars>>
    \/ Arrived /\ (\E req \in LoginRequests : login(req)) /\ UNCHANGED <<route_vars, frontend_vars>>
    \/ Arrived /\ (\E req \in ResendRequests : resend_confirmation(req)) /\ UNCHANGED <<route_vars, frontend_vars>>
    \/ Arrived /\ (\E req \in ResendRequests : resend_verification(req)) /\ UNCHANGED <<route_vars, frontend_vars>>
    \/ Arrived /\ get_articles
    \/ Arrived /\ mark_question_as_read
    \/ Arrived /\ get_related_questions
    \/ Arrived /\ get_user_progress
    \/ Arrived /\ list_users
    \/ Arrived /\ get_ai_assistance
    \/ Arrived /\ mark_article_as_read_check
    \/ mark_article_as_read_insert

SpecHandlers == InitHandlers /\ [][NextHandlers]_vars

(***************************************************************************)
(* Properties.                                                             *)
(***************************************************************************)
\* The request handled last passed the validation of signup and the lookup
\* of the existing-user check answered.
LookupAnswered ==
    /\ last.op = "signup"
    /\ last.calls # <<>>
    /\ last.calls[1].fn = "get_user_by_email"
    /\ last.calls[1].out = "ok"

CallsOf(fn) == {i \in DOMAIN last.calls : last.calls[i].fn = fn}

\* C1: login returns a token only for an account that is email-verified,
\* and signup, resend-verification and resend-confirmation never return one.
TokenOnlyForVerified ==
    /\ (last.op = "login" /\ last.resp.token # NoToken) =>
          /\ Registered(last.req.email[1])
          /\ accounts[last.req.email[1]].verified
          /\ last.calls[1].confirmed
    /\ last.op \in {"signup", "resend_verification", "resend_confirmation"} =>
          last.resp.token = NoToken

\* Witness of C1: a login returned a token while another account, with a
\* session of its own at the provider, is still unverified.
WitnessTokenForVerified ==
    /\ last.op = "login"
    /\ last.resp.token # NoToken
    /\ \E e \in DOMAIN accounts :
          ~accounts[e].verified /\ \E t \in DOMAIN sessions : sessions[t] = accounts[e].id

\* C2: login with credentials the provider accepted, for an account that is
\* not verified, answers 403 and carries no token.
LoginUnverifiedForbidden ==
    (/\ last.op = "login"
     /\ last.calls[1].out = "ok"
     /\ ~last.calls[1].confirmed) =>
        /\ last.resp.code = 403
        /\ last.resp.token = NoToken

WitnessLoginUnverified ==
    /\ last.op = "login"
    /\ last.calls[1].out = "ok"
    /\ ~last.calls[1].confirmed
    /\ last.calls[1].token # NoToken
    /\ last.resp.code = 403

\* C3 (as claimed): login with credentials the provider rejects, by an error
\* value or by raising, answers 401.
LoginRejectedUnauthorized ==
    (/\ last.op = "login"
     /\ last.calls[1].out \in {"error", "raise"}
     /\ last.calls[1].msg \in AuthErrMsgs) =>
        last.resp.code = 401

\* C4: the token of a successful login is the access token of the session
\* the provider opened for this sign-in, for this account.
LoginReturnsProviderToken ==
    (last.op = "login" /\ last.resp.code = 200) =>
        /\ last.resp.token # NoToken
        /\ last.resp.token = last.calls[1].token
        /\ last.resp.token = Cardinality(DOMAIN sessions)
        /\ sessions[last.resp.token] = accounts[last.req.email[1]].id

\* Witness of C4: a successful login after an earlier session was opened.
WitnessSecondToken ==
    /\ last.op = "login"
    /\ last.resp.code = 200
    /\ last.resp.token = 2

\* C5: the role passed to sign_up, stored in the account, inserted in the
\* profile row and returned is admin iff the admin code is the secret.
ExpectedRole == IF last.req.admin_code = Some(ADMIN_SECRET) THEN "admin" ELSE "user"

SignupRoleIffSecret ==
    (last.op = "signup" /\ last.calls # <<>>) =>
        /\ \A i \in CallsOf("sign_up") \cup CallsOf("users.insert") :
              /\ last.calls[i].role = ExpectedRole
              /\ last.calls[i].out = "ok" =>
                    accounts[last.req.email[1]].role = ExpectedRole
        /\ \A i \in CallsOf("users.insert") :
              last.calls[i].out = "ok" => users[last.calls[i].uid].role = ExpectedRole
        /\ last.resp.code = 200 /\ last.resp.status = Absent =>
              last.resp.role = ExpectedRole

\* Witness of C5: a signup with a code that differs from the secret only
\* in case registered a user.
WitnessRoleNearMiss ==
    /\ last.op = "signup"
    /\ last.req.admin_code = Some("S3CRET")
    /\ last.resp.code = 200
    /\ last.resp.role = "user"
    /\ CallsOf("users.insert") # {}

FieldMissing ==
    Falsy(last.req.email) \/ Falsy(last.req.password)
        \/ Falsy(last.req.username) \/ Falsy(last.req.phone)

RejectedWith(m) ==
    /\ last.resp.code = 400
    /\ last.resp.error = m
    /\ last.calls = <<>>

\* C7: with the other fields valid, a password of 5 characters is rejected
\* with a client error; one of 6 characters passes the validation, reaches
\* the identity provider and succeeds when sign_up and the insert succeed.
PasswordBoundary ==
    (/\ last.op = "signup"
     /\ ~FieldMissing
     /\ last.req.email[1] \notin BadEmails) =>
        /\ Len(last.req.password[1]) = 5 => RejectedWith(MsgShortPassword)
        /\ Len(last.req.password[1]) = 6 =>
              /\ last.resp.error \notin {MsgRequired, MsgInvalidEmail, MsgShortPassword}
              /\ CallsOf("get_user_by_email") = {1}
              /\ (\E i \in CallsOf("users.insert") : last.calls[i].out = "ok") =>
                    /\ last.resp.code = 200
                    /\ last.resp.message = MsgRegistered
                    /\ Registered(last.req.email[1])

\* Witness of C7: a signup with a password of 6 characters registered a user.
WitnessSixCharacters ==
    /\ last.op = "signup"
    /\ ~FieldMissing
    /\ Len(last.req.password[1]) = 6
    /\ last.resp.code = 200
    /\ last.resp.message = MsgRegistered
    /\ \E i \in CallsOf("users.insert") : last.calls[i].out = "ok"

ResignupUnverifiedResent ==
    (LookupAnswered /\ ~last.calls[1].confirmed) =>
        /\ last.resp.status = "resent"
        /\ Cardinality(CallsOf("resend")) = 1
        /\ CallsOf("sign_up") = {}
        /\ CallsOf("users.insert") = {}

Orphan(email) == Registered(email) /\ accounts[email].id \notin DOMAIN users

\* C11: signup inserts the profile row after sign_up created the account,
\* under the id sign_up returned; when the insert raises, signup answers
\* 500, the account stays, and an account without a profile row stays
\* without one in every later step.
SignupNotAtomic ==
    [][/\ (last'.op = "signup" /\ last' # last) =>
             \A i \in {k \in DOMAIN last'.calls : last'.calls[k].fn = "users.insert"} :
                /\ i > 1
                /\ last'.calls[i - 1].fn = "sign_up"
                /\ last'.calls[i - 1].out = "ok"
                /\ last'.calls[i].uid = last'.calls[i - 1].uid
                /\ last'.req.email[1] \notin DOMAIN accounts
                /\ last'.req.email[1] \in DOMAIN accounts'
                /\ accounts'[last'.req.email[1]].id = last'.calls[i].uid
                /\ IF last'.calls[i].out = "ok"
                   THEN /\ last'.resp.code = 200
                        /\ last'.calls[i].uid \in DOMAIN users'
                        /\ users'[last'.calls[i].uid].email = last'.req.email[1]
                   ELSE /\ last'.resp = ErrorResp(500, last'.calls[i].msg)
                        /\ last'.calls[i].uid \notin DOMAIN users'
       /\ \A e \in DOMAIN accounts :
             Orphan(e) => e \in DOMAIN accounts' /\ accounts'[e].id \notin DOMAIN users']_vars

\* Witness of C11: an account has no profile row, and a later signup for
\* its address was answered "resent".
WitnessOrphanAccount ==
    /\ last.op = "signup"
    /\ last.resp.status = "resent"
    /\ Orphan(last.req.email[1])

SwallowedCheckReachesSignUp ==
    (last.op = "signup" /\ last.calls # <<>>) =>
        /\ last.calls[1].fn = "get_user_by_email"
        /\ last.calls[1].out = "raise" =>
              /\ Len(last.calls) >= 2
              /\ last.calls[2].fn = "sign_up"
              /\ last.calls[2].email = last.req.email[1]
        /\ (/\ Len(last.calls) >= 2
            /\ last.calls[2].fn = "resend"
            /\ last.calls[2].out = "raise") =>
              /\ Len(last.calls) >= 3
              /\ last.calls[3].fn = "sign_up"
              /\ last.calls[3].email = last.req.email[1]
        /\ \A i \in CallsOf("sign_up") :
              \/ i = 2 /\ last.calls[1].out \in {"none", "raise"}
              \/ i = 3 /\ last.calls[2].fn = "resend" /\ last.calls[2].out = "raise"

\* Witness of C19: the resend for an unverified account raised and sign_up
\* was called for its address.
WitnessSwallowedResend ==
    /\ last.op = "signup"
    /\ Len(last.calls) = 3
    /\ last.calls[1].out = "ok"
    /\ last.calls[2].fn = "resend"
    /\ last.calls[2].out = "raise"
    /\ last.calls[3].fn = "sign_up"
    /\ Registered(last.req.email[1])

\* C20: every profile row carries the id, the address and the role of an
\* account of the identity provider; when sign_up returns no user, signup
\* answers a client error and does not call the insert.
ProfileRowsMatchAccounts ==
    /\ \A id \in DOMAIN users :
          \E e \in DOMAIN accounts :
             /\ accounts[e].id = id
             /\ users[id].email = e
             /\ users[id].role = accounts[e].role
    /\ (last.op = "signup" /\ \E i \in CallsOf("sign_up") : last.calls[i].out = "none") =>
          /\ last.resp.code \in 400..499
          /\ CallsOf("users.insert") = {}

\* Witness of C20: an admin and a plain user both have their profile rows.
WitnessTwoProfiles ==
    /\ \E id \in DOMAIN users : users[id].role = "admin"
    /\ \E id \in DOMAIN users : users[id].role = "user"
    /\ last.op = "signup"
    /\ last.resp.code = 200
    /\ last.resp.role # Absent

ProtectedOps ==
    {"get_articles", "mark_question_as_read", "get_related_questions",
     "get_user_progress", "get_ai_assistance", "mark_article_as_read"}

\* The identity provider accepts the bearer token of the header now.
HeaderAccepted(auth) ==
    /\ bearer_token(auth) # NoToken
    /\ bearer_token(auth) \in DOMAIN sessions
    /\ bearer_token(auth) \notin revoked

\* The call log starts with the provider resolving the token of the header.
ResolvedFirst(req, calls) ==
    /\ calls # <<>>
    /\ calls[1].fn = "auth.get_user"
    /\ calls[1].out = "ok"
    /\ calls[1].token = bearer_token(req.auth)
    /\ calls[1].uid = sessions[bearer_token(req.auth)]

\* C12: a protected route runs its body only for a request whose bearer
\* token the identity provider accepted; a request with a missing,
\* malformed, unknown or revoked token is answered 401, makes no call to the
\* database or the AI provider and changes no table.
ProtectedBehindToken ==
    [][/\ (last' # last /\ last'.op \in ProtectedOps /\ pending' = pending) =>
             IF HeaderAccepted(last'.req.auth) /\ last'.resp.code # 401
             THEN ResolvedFirst(last'.req, last'.calls)
             ELSE /\ last'.resp = RouteError(401, MsgUnauthorized)
                  /\ \A i \in DOMAIN last'.calls :
                        /\ last'.calls[i].fn = "auth.get_user"
                        /\ last'.calls[i].out # "ok"
                  /\ UNCHANGED <<userprogress, ai_interactions, pending>>
       /\ \A p \in BagToSet(pending') :
             CopiesIn(p, pending') > CopiesIn(p, pending) =>
                HeaderAccepted(p.req.auth) /\ ResolvedFirst(p.req, p.calls)]_vars

\* Witness of C12: a request to the AI route with the token of an ended
\* session was turned away after the provider rejected the token.
WitnessRevokedTurnedAway ==
    /\ last.op = "get_ai_assistance"
    /\ last.req.question = Some("what is a heap")
    /\ bearer_token(last.req.auth) \in revoked
    /\ last.resp.code = 401
    /\ Len(last.calls) = 1
    /\ last.calls[1].out = "error"

\* C13: every protected call asks the identity provider: the call is
\* served only if the provider accepts the token at that moment, and a
\* call with a token revoked since an earlier, served call is answered 401.
NoSessionCache ==
    [][/\ (last' # last /\ last'.op \in ProtectedOps /\ pending' = pending) =>
             /\ bearer_token(last'.req.auth) # NoToken =>
                   /\ Len(last'.calls) >= 1
                   /\ last'.calls[1].fn = "auth.get_user"
                   /\ last'.calls[1].token = bearer_token(last'.req.auth)
             /\ bearer_token(last'.req.auth) \in revoked =>
                   /\ last'.resp.code = 401
                   /\ last'.calls[1].out \in {"error", "raise"}
             /\ last'.resp.code # 401 =>
                   bearer_token(last'.req.auth) \in DOMAIN sessions \ revoked
       /\ \A p \in BagToSet(pending') :
             CopiesIn(p, pending') > CopiesIn(p, pending) =>
                bearer_token(p.req.auth) \in DOMAIN sessions \ revoked]_vars

\* Witness of C13: a call with a revoked token was answered 401 although
\* an earlier call with a token of that user was served and left its row.
WitnessRevokedAfterUse ==
    /\ last.op \in ProtectedOps
    /\ bearer_token(last.req.auth) \in revoked
    /\ last.resp.code = 401
    /\ last.calls[1].out = "error"
    /\ \E row \in BagToSet(userprogress) :
          row.user_id = sessions[bearer_token(last.req.auth)]

\* C14: a mark-article-read request of a user who already has a record for
\* that article, with every call answered, inserts nothing, answers 200
\* "Article already marked as read" and leaves the one record as it is; only
\* a request that found no record goes on to the insert.
MarkReadTwiceKeepsOne ==
    [][/\ (/\ last' # last
           /\ last'.op = "mark_article_as_read"
           /\ pending' = pending
           /\ HeaderAccepted(last'.req.auth)
           /\ \A i \in DOMAIN last'.calls : last'.calls[i].out = "ok"
           /\ Marked(sessions[bearer_token(last'.req.auth)], last'.req.article_id) >= 1) =>
             /\ last'.resp = RouteResp(200, Absent, MsgAlreadyRead, NoData)
             /\ \A i \in DOMAIN last'.calls : last'.calls[i].fn # "userprogress.insert"
             /\ userprogress' = userprogress
       /\ \A p \in BagToSet(pending') :
             CopiesIn(p, pending') > CopiesIn(p, pending) =>
                Marked(p.uid, p.req.article_id) = 0]_vars

\* Witness of C14: the second request for an article found the single
\* record of the first and said so.
WitnessSecondMarkRead ==
    /\ last.op = "mark_article_as_read"
    /\ last.resp.message = MsgAlreadyRead
    /\ Marked(sessions[bearer_token(last.req.auth)], last.req.article_id) = 1
    /\ pending = EmptyFn

\* C15 (as claimed): the userprogress table holds at most one record per
\* (user, article), whatever the interleaving of the requests.
AtMostOneRecordPerArticle ==
    \A row \in BagToSet(userprogress) :
       row.article_id # Absent => CopiesIn(row, userprogress) <= 1

\* C16 (as claimed): a request in which a call to the identity/data
\* provider or to the AI provider raised is answered 500 with the message
\* of that failure.
FailureMessageExposed ==
    \A i \in DOMAIN last.calls :
       (last.calls[i].out = "raise" /\ last.calls[i].fn # "auth.get_user") =>
          /\ last.resp.code = 500
          /\ last.resp.error = last.calls[i].msg

\* C18: within one request no external operation is called twice, nothing
\* is called after a failure except by signup, whose existing-user check
\* hands over to sign_up, and an AI request with a question and an
\* accepted token makes exactly one chat-completion call.
NoRetry ==
    /\ \A i, j \in DOMAIN last.calls :
          i < j =>
             /\ last.calls[i].fn # last.calls[j].fn
             /\ last.calls[i].out = "raise" =>
                   /\ last.op = "signup"
                   /\ last.calls[i].fn \in {"get_user_by_email", "resend"}
                   /\ last.calls[i + 1].fn = "sign_up"
    /\ (/\ last.op = "get_ai_assistance"
        /\ last.resp.code # 401
        /\ last.req.question # NoJson
        /\ ~Falsy(last.req.question)) =>
          Cardinality(CallsOf("chat.completions.create")) = 1
    /\ \A p \in BagToSet(pending) :
          \A i, j \in DOMAIN p.calls : i < j => p.calls[i].fn # p.calls[j].fn

\* Witness of C18: the chat completion of an AI request failed and the
\* request ended there, with the one call.
WitnessChatFailedOnce ==
    /\ last.op = "get_ai_assistance"
    /\ last.resp.code = 500
    /\ Len(last.calls) = 2
    /\ last.calls[2].fn = "chat.completions.create"
    /\ last.calls[2].out = "raise"

\* A signup request that fails one of the three checks of the handler.
Defective(req) ==
    IF Falsy(req.email) THEN TRUE
    ELSE IF Falsy(req.password) THEN TRUE
    ELSE IF Falsy(req.username) THEN TRUE
    ELSE IF Falsy(req.phone) THEN TRUE
    ELSE req.email[1] \in BadEmails \/ Len(req.password[1]) < 6

\* C21: a signup request with a missing field, a malformed address or a
\* short password is answered 400 without any call to the identity provider
\* or the database, and leaves accounts, mailbox, profile rows and sessions
\* as they were.
SignupInvalidNoEffect ==
    [][(last'.op = "signup" /\ last' # last /\ Defective(last'.req)) =>
          /\ last'.calls = <<>>
          /\ last'.resp.code = 400
          /\ UNCHANGED <<accounts, mailbox, users, sessions>>]_vars

\* Witness of C21: a request with a short password for an address that is
\* registered and unverified was rejected, and no verification was resent.
WitnessInvalidForRegistered ==
    /\ last.op = "signup"
    /\ last.req.email = Some(Alice)
    /\ last.req.password = Some(Pw5)
    /\ last.resp.code = 400
    /\ Registered(Alice)
    /\ ~accounts[Alice].verified
    /\ last.calls = <<>>

\* C22: a mark-article-read request for an id that is not in the articles
\* table, with the select answered, gets 404 and inserts nothing; a request
\* goes on to the insert only for an existing article of which its user has
\* no record; and every record inserted for an article is the one of a
\* request past that point: its user's id, its article id, a timestamp.
MarkReadOnlyExistingArticle ==
    [][/\ (/\ last' # last
           /\ last'.op = "mark_article_as_read"
           /\ HeaderAccepted(last'.req.auth)
           /\ last'.req.article_id \notin Articles
           /\ \A i \in DOMAIN last'.calls : last'.calls[i].out # "raise") =>
             /\ last'.resp = RouteError(404, MsgArticleNotFound)
             /\ UNCHANGED <<userprogress, pending>>
       /\ \A p \in BagToSet(pending') :
             CopiesIn(p, pending') > CopiesIn(p, pending) =>
                /\ p.req.article_id \in Articles
                /\ HeaderAccepted(p.req.auth)
                /\ p.uid = sessions[bearer_token(p.req.auth)]
                /\ CopiesIn(ArticleRow(p.uid, p.req.article_id), userprogress) = 0
       /\ \A row \in BagToSet(userprogress') :
             (/\ CopiesIn(row, userprogress') > CopiesIn(row, userprogress)
              /\ row.article_id # Absent) =>
                /\ row.article_id \in Articles
                /\ row.completed_at # Absent
                /\ last'.op = "mark_article_as_read"
                /\ row.article_id = last'.req.article_id
                /\ row.user_id = sessions[bearer_token(last'.req.auth)]
                /\ \E p \in BagToSet(pending) :
                      /\ CopiesIn(p, pending') < CopiesIn(p, pending)
                      /\ p.req = last'.req
                      /\ p.uid = row.user_id]_vars

\* Witness of C22: a user who has read an article asked to mark an unknown
\* id and was answered 404.
WitnessUnknownArticle ==
    /\ last.op = "mark_article_as_read"
    /\ last.req.article_id = "zz"
    /\ last.resp.code = 404
    /\ HeaderAccepted(last.req.auth)
    /\ Marked(sessions[bearer_token(last.req.auth)], "a1") = 1

\* C23 (as claimed): the progress a user is shown counts the rows of the
\* user against the articles, and never shows more completed than there are
\* articles or more than 100 percent.
ProgressFitsBar ==
    (last.op = "get_user_progress" /\ last.resp.code = 200) =>
        /\ last.resp.data.total_articles = Cardinality(Articles)
        /\ last.resp.data.completed_articles =
              BagCardinality(last.resp.data.progress_data)
        /\ last.resp.data.progress_percentage =
              <<last.resp.data.completed_articles * 100, last.resp.data.total_articles>>
        /\ last.resp.data.completed_articles <= last.resp.data.total_articles
        /\ last.resp.data.progress_percentage[1] >= 0
        /\ last.resp.data.progress_percentage[1] <=
              100 * last.resp.data.progress_percentage[2]

\* The handled request went to /ai/assist and passed the token check.
AiServed == last.op = "get_ai_assistance" /\ last.resp.code # 401

\* The request carries no question: no JSON body, no key, or an empty text.
QuestionMissing ==
    IF last.req.question = NoJson THEN TRUE ELSE Falsy(last.req.question)

\* A request without a question is answered with a client error and calls
\* neither the AI provider nor the database.
AiQuestionGate ==
    (AiServed /\ QuestionMissing) =>
        /\ last.resp.code >= 400
        /\ last.resp.code < 500
        /\ Len(last.calls) = 1

\* With a question the AI provider is called first; the interaction is
\* stored only after it answered, as (user id, question, response); and a
\* failure of the store gives 500 without the response.
AiStoreAfterResponse ==
    (AiServed /\ ~QuestionMissing) =>
        /\ Len(last.calls) >= 2
        /\ last.calls[2].fn = "chat.completions.create"
        /\ last.calls[2].arg = last.req.question[1]
        /\ \A i \in CallsOf("ai_interactions.insert") :
              /\ i = 3
              /\ last.calls[2].out = "ok"
              /\ last.calls[i].uid = last.calls[1].uid
              /\ last.calls[i].out = "raise" =>
                    /\ last.resp.code = 500
                    /\ last.resp.data = NoData
              /\ last.calls[i].out = "ok" =>
                    /\ last.resp.code = 200
                    /\ ai_interactions # <<>>
                    /\ ai_interactions[Len(ai_interactions)] =
                          [user_id |-> last.calls[1].uid,
                           question |-> last.req.question[1],
                           ai_response |-> last.resp.data.response]
        /\ last.calls[2].out = "raise" =>
              Len(last.calls) = 2 /\ last.resp.code = 500

\* C24 (as claimed): the question gate and the order of the two calls.
AiAssistGateAndOrder == AiQuestionGate /\ AiStoreAfterResponse

\* A fence starts at position i of the text.
FenceAt(text, i) ==
    IF i + 2 > Len(text) THEN FALSE
    ELSE text[i] = "BQ" /\ text[i + 1] = "BQ" /\ text[i + 2] = "BQ"

FirstFenceFrom(text, from) ==
    IF \E i \in from..Len(text) : FenceAt(text, i)
    THEN CHOOSE i \in from..Len(text) :
            FenceAt(text, i) /\ \A j \in from..(i - 1) : ~FenceAt(text, j)
    ELSE Len(text) + 1

\* The text without the whitespace around it.
Trimmed(text) ==
    LET inked == {i \in DOMAIN text : text[i] \notin Whitespace} IN
    IF inked = {} THEN <<>>
    ELSE SubSeq(text, CHOOSE i \in inked : \A j \in inked : i <= j,
                      CHOOSE i \in inked : \A j \in inked : i >= j)

\* The first fenced block of a text: what lies between the first fence and
\* the next one (or the end), trimmed, less a leading python tag.
FirstBlock(text) ==
    LET open == FirstFenceFrom(text, 1)
        close == FirstFenceFrom(text, open + 3)
        body == Trimmed(SubSeq(text, open + 3, close - 1))
    IN  IF Len(body) >= 6 /\ \A k \in 1..6 : body[k] = PythonTag[k]
        THEN Trimmed(SubSeq(body, 7, Len(body)))
        ELSE body

\* C25: extract_code_example gives None for a text without a fence and the
\* first fenced block otherwise, and the answer of AI assist carries that
\* value as code_example when the response has a fence and null when not.
CodeExampleIsFirstBlock ==
    (last.op = "get_ai_assistance" /\ last.resp.code = 200) =>
        LET text == last.resp.data.response
            fenced == \E i \in DOMAIN text : FenceAt(text, i)
        IN  /\ extract_code_example(text) =
                  IF fenced THEN Some(FirstBlock(text)) ELSE None
            /\ last.resp.data.code_example =
                  IF fenced THEN Some(FirstBlock(text)) ELSE None

\* Witness of C25: a response whose block opens with the python tag and is
\* never closed, and the block returned without the tag and the line break.
WitnessTagRemoved ==
    /\ last.op = "get_ai_assistance"
    /\ last.resp.code = 200
    /\ last.resp.data.response = Fence \o PythonTag \o <<"NL", "x">>
    /\ last.resp.data.code_example = Some(<<"x">>)

\* C26 (as claimed): the routes that return stored user data, the profile
\* rows of list-users and the progress and role of get_user_progress,
\* answer 200 only to a request whose bearer token the identity provider
\* resolved.
UserDataBehindToken ==
    (last.op \in {"list_users", "get_user_progress"} /\ last.resp.code = 200) =>
        /\ HeaderAccepted(last.req.auth)
        /\ ResolvedFirst(last.req, last.calls)

(***************************************************************************)
(* The frontend.  A browser session runs one of the two Streamlit scripts  *)
(* (src/frontend/main.py, src/main_d.py); every action is one run of the   *)
(* script from top to bottom, started by a first load, by a widget the     *)
(* user touched on the page of the run before, or by st.rerun().  The      *)
(* backend is what answers at API_BASE_URL: the status of every response   *)
(* and the body of the login response are inputs of the run.               *)
(* ai_chatbot (main.py 567-624) has no caller and is left out.             *)
(***************************************************************************)
\* Status of a response; 0 stands for none (requests raised).
FrontStatuses == {0, 200, 401, 500}

\* response.json() of a login answered 200: "token" absent, null or a
\* string, "role" absent or a string.
LoginData ==
    {token @@ role :
        token \in {EmptyFn, "token" :> None, "token" :> Some(""),
                   "token" :> Some("tok")},
        role \in {EmptyFn, "role" :> Some("admin")}}

\* dict.get(key, default)
data_get(data, key, default) ==
    IF key \in DOMAIN data THEN data[key] ELSE default

\* The inputs of one run: the widget the user touched, if any (event,
\* checked), and the answers to the requests the run can send; the answer
\* to a request the run cannot send is left at one value.
LoginPageInputs ==
    [event : {"none", "login"}, health : {"up", "down"}, login : FrontStatuses,
     data : LoginData, articles : {0}, progress_health : {"up"},
     progress : {0}, checked : {FALSE}, progress_data : {0}, other : {200}]
    \cup
    [event : {"signup"}, health : {"up"}, login : {0}, data : {EmptyFn},
     articles : {0}, progress_health : {"up"}, progress : {0},
     checked : {FALSE}, progress_data : {0}, other : {200, 500}]

DashboardInputs ==
    [event : {"none", "logout", "ask"}, health : {"up", "down"}, login : {0},
     data : {EmptyFn}, articles : FrontStatuses,
     progress_health : {"up", "down"}, progress : FrontStatuses,
     checked : BOOLEAN, progress_data : 0..1, other : {200, 500}]

\* A request sent and the status of its response.
HttpRequest(method, path, authorization, status) ==
    [method |-> method, path |-> path, Authorization |-> authorization,
     status |-> status]

\* The status of a health check.
Health(answer) == IF answer = "up" THEN 200 ELSE 0

\* f"Bearer {st.session_state.token}"
headers(state) ==
    Some(<<"Bearer ", IF state.token = None THEN "None" ELSE state.token[1]>>)

\* A run in progress: the session state, the requests sent so far, and
\* whether st.rerun() has ended the run.
Send(r, q) == [r EXCEPT !.sent = Append(@, q)]
Rerun(r) == [r EXCEPT !.rerun = TRUE]

init_session_state(state) ==
    [key \in {"token", "user_role"} |->
        IF key \in DOMAIN state THEN state[key] ELSE None]

\* The result of the login request, in both scripts.
login_answered(r, env) ==
    LET asked == Send(r, HttpRequest("POST", "login", None, env.login)) IN
    IF env.login = 200
    THEN Rerun([asked EXCEPT
                   !.state.token = data_get(env.data, "token", Some("default_token")),
                   !.state.user_role = data_get(env.data, "role", Some("user"))])
    ELSE asked

frontend_login(r, env) ==
    IF env.event # "login" THEN r ELSE login_answered(r, env)

login_d(r, env) ==
    IF env.event # "login" THEN r
    ELSE LET checked == Send(r, HttpRequest("GET", "/", None, Health(env.health))) IN
         IF env.health = "down" THEN checked ELSE login_answered(checked, env)

frontend_signup(r, env) ==
    IF env.event # "signup" THEN r
    ELSE Send(r, HttpRequest("POST", "signup", None, env.other))

\* `'token' not in st.session_state or not st.session_state.token`
no_token(state) ==
    IF "token" \notin DOMAIN state THEN TRUE ELSE Falsy(state.token)

\* `'token' not in st.session_state`
no_token_d(state) == "token" \notin DOMAIN state

\* `elif response.status_code == 401:` of the articles and progress views.
session_expired(r) ==
    Rerun([r EXCEPT !.state.token = None])

display_articles(r, env) ==
    IF no_token(r.state) THEN r
    ELSE LET checked == Send(r, HttpRequest("GET", "/", None, Health(env.health)))
             asked == Send(checked, HttpRequest("GET", "articles", headers(r.state),
                                                env.articles))
         IN  IF env.health = "down" THEN checked
             ELSE IF env.articles = 200
             THEN IF script = "frontend/main.py" /\ env.checked
                  THEN Send(asked, HttpRequest("POST", "mark-read", headers(r.state),
                                                env.other))
                  ELSE asked
             ELSE IF env.articles = 401 THEN session_expired(asked)
             ELSE asked

display_progress(r, env) ==
    IF no_token(r.state) THEN r
    ELSE LET checked == Send(r, HttpRequest("GET", "/", None,
                                            Health(env.progress_health)))
             asked == Send(checked, HttpRequest("GET", "progress", headers(r.state),
                                                env.progress))
         IN  IF env.progress_health = "down" THEN checked
             ELSE IF env.progress = 200
             THEN IF env.progress_data > 0
                  THEN Send(asked, HttpRequest("GET", "article", headers(r.state),
                                                env.other))
                  ELSE asked
             ELSE IF env.progress = 401 THEN session_expired(asked)
             ELSE asked

display_progress_d(r, env) ==
    IF no_token_d(r.state) THEN r
    ELSE Send(r, HttpRequest("GET", "progress", headers(r.state), env.progress))

display_ai_assistance(r, env) ==
    IF no_token(r.state) THEN r
    ELSE IF env.event = "ask"
    THEN Send(r, HttpRequest("POST", "ai/assist", headers(r.state), env.other))
    ELSE r

display_ai_assistance_d(r, env) ==
    IF no_token_d(r.state) THEN r
    ELSE IF env.event = "ask"
    THEN Send(r, HttpRequest("POST", "ai/assist", headers(r.state), env.other))
    ELSE r

\* The Logout button: every key of the session state is deleted.
logout(r) == Rerun([r EXCEPT !.state = EmptyFn])

\* The login page: the two forms, one after the other.
login_page(r, env) ==
    LET logged == IF script = "frontend/main.py" THEN frontend_login(r, env)
                  ELSE login_d(r, env)
    IN  IF logged.rerun THEN logged ELSE frontend_signup(logged, env)

\* The dashboard: the sidebar with Logout, then the three tabs.
dashboard(r, env) ==
    IF env.event = "logout" THEN logout(r)
    ELSE LET articles == display_articles(r, env)
             progress == IF articles.rerun THEN articles
                         ELSE IF script = "frontend/main.py"
                         THEN display_progress(articles, env)
                         ELSE display_progress_d(articles, env)
         IN  IF progress.rerun THEN progress
             ELSE IF script = "frontend/main.py"
             THEN display_ai_assistance(progress, env)
             ELSE display_ai_assistance_d(progress, env)

\* `if st.session_state.token is None:`
shows_login(state) == state.token = None

\* What the user can have touched: nothing on a first load or after
\* st.rerun(), else a widget of the page rendered before.
Touched(env) ==
    /\ (rendered.rerun \/ rendered.page = "none") =>
          env.event = "none" /\ ~env.checked
    /\ env.event \in {"login", "signup"} => rendered.page = "login"
    /\ env.event \in {"logout", "ask"} => rendered.page = "dashboard"
    /\ env.checked => rendered.page = "dashboard"

RunInputs ==
    IF shows_login(init_session_state(session_state)) THEN LoginPageInputs
    ELSE DashboardInputs

\* One run of the script.
run(env) ==
    LET state == init_session_state(session_state)
        start == [state |-> state, sent |-> <<>>, rerun |-> FALSE]
        page == IF shows_login(state) THEN "login" ELSE "dashboard"
        done == IF shows_login(state) THEN login_page(start, env)
                ELSE dashboard(start, env)
    IN  /\ Touched(env)
        /\ session_state' = done.state
        /\ rendered' = [page |-> page, sent |-> done.sent, rerun |-> done.rerun]
        /\ UNCHANGED <<script, accounts, mailbox, sessions, users, last,
                       route_vars>>

main == script = "frontend/main.py" /\ \E env \in RunInputs : run(env)

main_d == script = "main_d.py" /\ \E env \in RunInputs : run(env)

InitFrontend ==
    /\ script \in {"frontend/main.py", "main_d.py"}
    /\ session_state = EmptyFn
    /\ rendered = NoRun
    /\ accounts = EmptyFn
    /\ mailbox = {}
    /\ sessions = EmptyFn
    /\ users = EmptyFn
    /\ last = [op |-> "none", req |-> NoRequest, calls |-> <<>>, resp |-> NoResp]
    /\ InitRouteVars

NextFrontend ==
    \/ main
    \/ main_d

SpecFrontend == InitFrontend /\ [][NextFrontend]_vars

(***************************************************************************)
(* The frontend's claims.  In a step, session_state is the state the run   *)
(* starts from (init_session_state fills the missing keys) and rendered'   *)
(* is the run.                                                             *)
(***************************************************************************)
\* The requests of the protected views: each goes to a route the backend
\* keeps behind a token.
Protected(q) ==
    q.path \in {"articles", "progress", "article", "mark-read", "ai/assist"}

\* The token the run starts with.
StartToken == init_session_state(session_state).token

\* A run that starts without a token, or with an empty one, renders the
\* login page and sends no protected request.
GuestSeesLogin ==
    [][Falsy(StartToken) =>
          /\ rendered'.page = "login"
          /\ \A i \in DOMAIN rendered'.sent : ~Protected(rendered'.sent[i])]_vars

\* Every protected request carries "Bearer <session token>", and the token
\* is not empty.
ProtectedCarryToken ==
    [][\A i \in DOMAIN rendered'.sent :
          Protected(rendered'.sent[i]) =>
             /\ ~Falsy(StartToken)
             /\ rendered'.sent[i].Authorization =
                   Some(<<"Bearer ", StartToken[1]>>)]_vars

\* C27: in the frontend, when the session token is None or empty the
\* login/signup page is rendered and no protected view sends a backend
\* request; a protected request is sent only with the header
\* "Bearer <session token>" built from a non-empty token.
FrontendBehindToken == GuestSeesLogin /\ ProtectedCarryToken

\* The run asked for the articles or the progress and was answered with
\* this status.
AnsweredWith(r, status) ==
    \E i \in DOMAIN r.sent :
       r.sent[i].path \in {"articles", "progress"} /\ r.sent[i].status = status

\* The articles or progress request was answered with a status other than
\* 200 and 401 (0: with no response at all).
AnsweredOtherwise(r) ==
    \E i \in DOMAIN r.sent :
       /\ r.sent[i].path \in {"articles", "progress"}
       /\ r.sent[i].status \notin {200, 401}

\* A 401 to the articles or progress request resets the token to None and
\* reruns the script.
ExpiredSessionReset ==
    [][AnsweredWith(rendered', 401) =>
          session_state'.token = None /\ rendered'.rerun]_vars

\* The run after a 401 renders the login page.
ExpiredSessionSeesLogin ==
    [][AnsweredWith(rendered, 401) => rendered'.page = "login"]_vars

\* A run whose articles or progress request got another non-200 status,
\* and none a 401, keeps the token.
OtherStatusKeepsToken ==
    [][(AnsweredOtherwise(rendered') /\ ~AnsweredWith(rendered', 401)) =>
          session_state'.token = StartToken]_vars

\* C28: in the frontend, whenever the articles or progress request is
\* answered with 401 the session token is reset to None and the page is
\* rerun, so the next render shows the login page; any other non-200
\* status leaves the token unchanged.
SessionExpiry ==
    ExpiredSessionReset /\ ExpiredSessionSeesLogin /\ OtherStatusKeepsToken
====
